---- MODULE Spec2Model ----
(***************************************************************************)
(* Timer / phase state machine of src/src/App.tsx (component App).          *)
(*                                                                          *)
(* The state is the React state of the component (settings, timeLeft,       *)
(* isRunning, mode, laps, dailyStats).  Every handler runs against the      *)
(* values of the render it was created in; all handlers and the interval    *)
(* callback are re-created on every render, so between two events they      *)
(* close over the current state.  One action is one event: the handler,     *)
(* the state updates it queues, the re-render and the effect that follows.  *)
(*                                                                          *)
(* Numbers are JavaScript numbers restricted to the integers plus NaN       *)
(* (parseInt of an empty input yields NaN and Math.max keeps it).           *)
(***************************************************************************)
EXTENDS Integers, Sequences, FiniteSets, TLC

VARIABLES
    settings,    \* TimerSettings (useState, lines 30-35)
    timeLeft,    \* seconds left in the countdown (line 37)
    isRunning,   \* line 38
    mode,        \* "work" | "break" (line 39)
    laps,        \* Lap[], newest first (line 41)
    dailyStats,  \* DailyStats (lines 44-51)
    loaded,      \* history: the duration put into timeLeft when the current phase was entered
    long,        \* history: the current phase was entered as a long break
    reloaded,    \* history: the duration last put into timeLeft, on entering the phase or by a reset
    clean,       \* history: no reset and no settings change since the current phase was entered
    last,        \* history: the last event, its argument, its sound and the state before it
    edits,       \* history: the number of settings edits so far
    phaseTicks,  \* history: ticks processed since the current phase was entered (counted in CountSpec)
    totalTicks,  \* history: ticks processed since the start (counted in CountSpec)
    quiet        \* environment: the user has left and performs no further operation (LiveSpec)

vars == <<settings, timeLeft, isRunning, mode, laps, dailyStats, loaded, long, reloaded, clean,
          last, edits, phaseTicks, totalTicks, quiet>>

-----------------------------------------------------------------------------
(* Bounds of the exploration. *)

\* The history log is explored up to this many laps.
MaxLaps == 2

\* The user presses a button only while the display is within this many
\* seconds of a value the countdown is loaded with, or of zero.
UserWindow == 1

\* The user edits the settings at most this many times.
MaxEdits == 2

\* The user starts a countdown only when at most this many minutes are loaded.
MaxMinutes == 1

\* Work sessions explored by the run of uninterrupted sessions (SessionSpec).
MaxSessions == 9

\* Ticks explored where the events of Next are taken with the ticks counted (CountSpec).
MaxTicks == 3

-----------------------------------------------------------------------------
(* JavaScript numbers: integers and NaN. *)

NaN == -1000000

IsNaN(x) == x = NaN

Sub(a, b) == IF IsNaN(a) \/ IsNaN(b) THEN NaN ELSE a - b

Mul(a, b) == IF IsNaN(a) \/ IsNaN(b) THEN NaN ELSE a * b

\* a % b for a >= 0, b > 0; NaN when an operand is NaN or b is 0
Rem(a, b) == IF IsNaN(a) \/ IsNaN(b) \/ b = 0 THEN NaN ELSE a % b

\* a > b: false when an operand is NaN
Gt(a, b) == ~IsNaN(a) /\ ~IsNaN(b) /\ a > b

\* a <= b: false when an operand is NaN
Le(a, b) == ~IsNaN(a) /\ ~IsNaN(b) /\ a <= b

\* a === b: false when an operand is NaN
StrictEq(a, b) == ~IsNaN(a) /\ ~IsNaN(b) /\ a = b

\* Math.max(a, b): NaN when an operand is NaN
MathMax(a, b) == IF IsNaN(a) \/ IsNaN(b) THEN NaN ELSE IF a >= b THEN a ELSE b

Digits == <<"0", "1", "2", "3", "4", "5", "6", "7", "8", "9">>

IsDigit(c) == \E d \in 1..10 : Digits[d] = c

DigitValue(c) == (CHOOSE d \in 1..10 : Digits[d] = c) - 1

RECURSIVE ParseDigits(_, _, _)
ParseDigits(s, i, acc) ==
    IF i > Len(s) \/ ~IsDigit(s[i]) THEN acc
    ELSE ParseDigits(s, i + 1, acc * 10 + DigitValue(s[i]))

\* parseInt(s): optional sign, then the longest prefix of decimal digits;
\* NaN when there is no digit.  s is a sequence of characters.
ParseInt(s) ==
    LET signed == Len(s) > 0 /\ s[1] \in {"-", "+"}
        start  == IF signed THEN 2 ELSE 1
    IN  IF start > Len(s) \/ ~IsDigit(s[start]) THEN NaN
        ELSE IF signed /\ s[1] = "-" THEN 0 - ParseDigits(s, start, 0)
        ELSE ParseDigits(s, start, 0)

\* What the user leaves in a settings field (e.target.value of a number input):
\* the emptied field, zero, a negative number, one, a fraction, thirty.
EnteredValues ==
    { <<>>, <<"0">>, <<"-", "1">>, <<"1">>, <<"1", ".", "5">>, <<"3", "0">> }

-----------------------------------------------------------------------------
(* Initial state. *)

SecondsPerMinute == 60

InitialSettings ==
    [ workDuration           |-> 25 * SecondsPerMinute,
      breakDuration          |-> 5 * SecondsPerMinute,
      longBreakDuration      |-> 15 * SecondsPerMinute,
      sessionsUntilLongBreak |-> 4 ]

InitialStats ==
    [ workSessions   |-> 0,
      breakSessions  |-> 0,
      totalWorkTime  |-> 0,
      totalBreakTime |-> 0,
      dailyGoal      |-> 8,
      streakDays     |-> 0 ]

Snapshot ==
    [ settings |-> settings, timeLeft |-> timeLeft, isRunning |-> isRunning,
      mode |-> mode, laps |-> laps, dailyStats |-> dailyStats,
      loaded |-> loaded, long |-> long, reloaded |-> reloaded, clean |-> clean,
      phaseTicks |-> phaseTicks, totalTicks |-> totalTicks ]

\* the last event: its handler, its argument, the sound it played, the state
\* before it, and whether it is a reset that follows a reset
Event(op, arg, sound) ==
    [ op |-> op, arg |-> arg, sound |-> sound, pre |-> Snapshot,
      again |-> (op = "reset" /\ last.op = "reset") ]

Init ==
    /\ settings = InitialSettings
    /\ timeLeft = InitialSettings.workDuration
    /\ isRunning = FALSE
    /\ mode = "work"
    /\ laps = <<>>
    /\ dailyStats = InitialStats
    /\ loaded = InitialSettings.workDuration
    /\ long = FALSE
    /\ reloaded = InitialSettings.workDuration
    /\ clean = TRUE
    /\ last = [ op |-> "init", arg |-> "", sound |-> "none", again |-> FALSE,
                pre |-> [ settings |-> InitialSettings,
                          timeLeft |-> InitialSettings.workDuration,
                          isRunning |-> FALSE, mode |-> "work", laps |-> <<>>,
                          dailyStats |-> InitialStats,
                          loaded |-> InitialSettings.workDuration, long |-> FALSE,
                          reloaded |-> InitialSettings.workDuration, clean |-> TRUE,
                          phaseTicks |-> 0, totalTicks |-> 0 ] ]
    /\ edits = 0
    /\ phaseTicks = 0
    /\ totalTicks = 0
    /\ quiet = FALSE

-----------------------------------------------------------------------------
(* The component's functions. *)

\* the effect of lines 154-156, run after the render that follows an event:
\* a countdown standing at 0 is stopped
StopAtZero(running, time) == IF StrictEq(time, 0) THEN FALSE ELSE running

\* totalTime of resetTimer / addLap / handleModeChange: the configured
\* duration of a mode (a break is always looked up as breakDuration)
TotalTime(m) == IF m = "work" THEN settings.workDuration ELSE settings.breakDuration

\* elapsedTime of addLap
ElapsedTime == Sub(TotalTime(mode), timeLeft)

\* addLap's condition to record
Records == Gt(ElapsedTime, 0)

\* an addLap that puts the lap at the end of the log
AddLapLapsAtEnd ==
    IF Records THEN Append(laps, [ mode |-> mode, duration |-> ElapsedTime ]) ELSE laps

\* addLap: the laps after the call
AddLapLaps ==
    IF Records THEN <<[ mode |-> mode, duration |-> ElapsedTime ]>> \o laps ELSE laps

\* the streak condition of the setDailyStats updater (lines 98-99)
StreakDue(prev, newStats) ==
    /\ mode = "work"
    /\ newStats.workSessions >= prev.dailyGoal
    /\ newStats.workSessions # prev.workSessions

\* a fold that books every lap as work
FoldLapAsWork(prev) ==
    [ prev EXCEPT !.workSessions = @ + 1, !.totalWorkTime = @ + ElapsedTime ]

\* the setDailyStats updater of addLap (lines 88-104)
FoldLap(prev) ==
    LET newStats ==
          [ prev EXCEPT
              !.workSessions   = @ + (IF mode = "work" THEN 1 ELSE 0),
              !.breakSessions  = @ + (IF mode = "break" THEN 1 ELSE 0),
              !.totalWorkTime  = @ + (IF mode = "work" THEN ElapsedTime ELSE 0),
              !.totalBreakTime = @ + (IF mode = "break" THEN ElapsedTime ELSE 0) ]
    IN  IF StreakDue(prev, newStats)
        THEN [ newStats EXCEPT !.streakDays = prev.streakDays + 1 ]
        ELSE newStats

\* an addLap whose stats updater runs twice
AddLapStatsTwice == IF Records THEN FoldLap(FoldLap(dailyStats)) ELSE dailyStats

\* addLap: the daily stats after the call
AddLapStats == IF Records THEN FoldLap(dailyStats) ELSE dailyStats

OtherMode(m) == IF m = "work" THEN "break" ELSE "work"

\* isLongBreak of switchMode: dailyStats of the render, before the lap is folded
IsLongBreak(newMode) ==
    /\ newMode = "break"
    /\ StrictEq(Rem(dailyStats.workSessions, settings.sessionsUntilLongBreak), 0)

\* the duration switchMode loads for newMode
SwitchDuration(newMode) ==
    IF newMode = "work" THEN settings.workDuration
    ELSE IF IsLongBreak(newMode) THEN settings.longBreakDuration
    ELSE settings.breakDuration

\* the duration handleModeChange loads for newMode
ManualDuration(newMode) ==
    IF newMode = "work" THEN settings.workDuration ELSE settings.breakDuration

\* the session info text under the controls announces a long break (lines 384-390)
SessionInfoLongBreak ==
    /\ mode = "break"
    /\ StrictEq(Rem(dailyStats.workSessions, settings.sessionsUntilLongBreak), 0)

\* the duration resetTimer loads
ResetDuration == IF mode = "work" THEN settings.workDuration ELSE settings.breakDuration

-----------------------------------------------------------------------------
(* Events. *)

\* a resetTimer that flips isRunning instead of clearing it
ResetTimerFlips ==
    /\ timeLeft' = ResetDuration
    /\ isRunning' = ~isRunning
    /\ reloaded' = ResetDuration
    /\ clean' = FALSE
    /\ last' = Event("reset", "", "none")
    /\ UNCHANGED <<settings, mode, laps, dailyStats, loaded, long>>

\* resetTimer (lines 63-67)
ResetTimer ==
    /\ timeLeft' = ResetDuration
    /\ isRunning' = StopAtZero(FALSE, ResetDuration)
    /\ reloaded' = ResetDuration
    /\ clean' = FALSE
    /\ last' = Event("reset", "", "none")
    /\ UNCHANGED <<settings, mode, laps, dailyStats, loaded, long>>

\* a toggleTimer that plays the start sound on every press
ToggleTimerAlwaysPlays ==
    /\ isRunning' = StopAtZero(~isRunning, timeLeft)
    /\ last' = Event("toggle", "", "start")
    /\ UNCHANGED <<settings, timeLeft, mode, laps, dailyStats, loaded, long, reloaded, clean>>

\* toggleTimer (lines 69-74)
ToggleTimer ==
    /\ isRunning' = StopAtZero(~isRunning, timeLeft)
    /\ last' = Event("toggle", "", IF ~isRunning THEN "start" ELSE "none")
    /\ UNCHANGED <<settings, timeLeft, mode, laps, dailyStats, loaded, long, reloaded, clean>>

\* a switchMode whose load is overwritten by the updater's own result, time - 1
SwitchModeKeepsUpdaterResult ==
    LET newMode == OtherMode(mode)
    IN  /\ laps' = AddLapLaps
        /\ dailyStats' = AddLapStats
        /\ mode' = newMode
        /\ timeLeft' = timeLeft - 1
        /\ isRunning' = FALSE
        /\ loaded' = SwitchDuration(newMode)
        /\ long' = IsLongBreak(newMode)
        /\ reloaded' = SwitchDuration(newMode)
        /\ clean' = TRUE

\* a switchMode that reloads the phase that ended instead of the other one
SwitchModeStays ==
    /\ laps' = AddLapLaps
    /\ dailyStats' = AddLapStats
    /\ mode' = mode
    /\ timeLeft' = SwitchDuration(mode)
    /\ isRunning' = FALSE
    /\ loaded' = SwitchDuration(mode)
    /\ long' = IsLongBreak(mode)
    /\ reloaded' = SwitchDuration(mode)
    /\ clean' = TRUE

\* switchMode (lines 108-119), called by the tick that ends a phase
SwitchMode ==
    LET newMode == OtherMode(mode)
    IN  /\ laps' = AddLapLaps
        /\ dailyStats' = AddLapStats
        /\ mode' = newMode
        /\ timeLeft' = SwitchDuration(newMode)
        /\ isRunning' = StopAtZero(FALSE, SwitchDuration(newMode))
        /\ loaded' = SwitchDuration(newMode)
        /\ long' = IsLongBreak(newMode)
        /\ reloaded' = SwitchDuration(newMode)
        /\ clean' = TRUE

\* a handleModeChange without the test mode !== newMode
HandleModeChangeUnguarded(newMode) ==
    /\ last' = Event("setPhase", newMode, "none")
    /\ laps' = AddLapLaps
    /\ dailyStats' = AddLapStats
    /\ mode' = newMode
    /\ timeLeft' = ManualDuration(newMode)
    /\ isRunning' = FALSE
    /\ loaded' = ManualDuration(newMode)
    /\ long' = FALSE
    /\ reloaded' = ManualDuration(newMode)
    /\ clean' = TRUE
    /\ UNCHANGED settings

\* handleModeChange (lines 121-128)
HandleModeChange(newMode) ==
    /\ last' = Event("setPhase", newMode, "none")
    /\ IF mode # newMode
       THEN /\ laps' = AddLapLaps
            /\ dailyStats' = AddLapStats
            /\ mode' = newMode
            /\ timeLeft' = ManualDuration(newMode)
            /\ isRunning' = StopAtZero(FALSE, ManualDuration(newMode))
            /\ loaded' = ManualDuration(newMode)
            /\ long' = FALSE
            /\ reloaded' = ManualDuration(newMode)
            /\ clean' = TRUE
            /\ UNCHANGED settings
       ELSE UNCHANGED <<settings, timeLeft, isRunning, mode, laps, dailyStats,
                        loaded, long, reloaded, clean>>

\* a tick that counts up
CountUp(time) == time + 1

\* a tick that takes two seconds off
CountDownByTwo(time) == time - 2

\* the updater's result (lines 149, 151)
CountDown(time) == time - 1

\* the interval callback of the effect (lines 136-163): it exists while
\* isRunning && timeLeft > 0.  Below 2 the updater calls switchMode; the
\* state updates switchMode queues while the updater runs are applied after
\* the updater's own result, so timeLeft ends at the duration switchMode loads.
Tick ==
    /\ isRunning
    /\ Gt(timeLeft, 0)
    /\ IF Le(timeLeft, 1)
       THEN /\ SwitchMode
            /\ last' = Event("expire", "", IF mode = "work" THEN "workComplete" ELSE "breakComplete")
            /\ UNCHANGED settings
       ELSE /\ timeLeft' = CountDown(timeLeft)
            /\ isRunning' = StopAtZero(isRunning, CountDown(timeLeft))
            /\ last' = Event("tick", "", "none")
            /\ UNCHANGED <<settings, mode, laps, dailyStats, loaded, long, reloaded, clean>>

\* the value an onChange handler of the settings panel stores (lines 208, 220, 232, 244)
Clamped(value) == MathMax(1, ParseInt(value))

NewSetting(field, value) ==
    IF field = "sessionsUntilLongBreak" THEN Clamped(value)
    ELSE Mul(Clamped(value), SecondsPerMinute)

SettingsFields ==
    {"workDuration", "breakDuration", "longBreakDuration", "sessionsUntilLongBreak"}

\* onChange of a settings input (lines 203-248)
UpdateSettings(field, value) ==
    /\ settings' = [ settings EXCEPT ![field] = NewSetting(field, value) ]
    /\ clean' = FALSE
    /\ last' = Event("updateSettings", field, "none")
    /\ edits' = edits + 1
    /\ UNCHANGED <<timeLeft, isRunning, mode, laps, dailyStats, loaded, long, reloaded>>

-----------------------------------------------------------------------------
(* The specification. *)

\* the user acts now: the display is near a loaded value or near zero
UserActs ==
    \/ IsNaN(timeLeft)
    \/ timeLeft <= UserWindow
    \/ \E d \in {settings.workDuration, settings.breakDuration,
                 settings.longBreakDuration, loaded} :
          ~IsNaN(d) /\ d - UserWindow <= timeLeft /\ timeLeft <= d

\* the explored history log has room for the lap this event may record
Room == Len(laps) < MaxLaps

\* the user starts only a short countdown (a pause is always possible)
ShortEnough == isRunning \/ IsNaN(timeLeft) \/ timeLeft <= MaxMinutes * SecondsPerMinute

\* the user stays at the timer
Attended == UNCHANGED quiet

\* the tick counters are not kept
Uncounted == UNCHANGED <<phaseTicks, totalTicks>>

Next ==
    \/ UserActs /\ ResetTimer /\ UNCHANGED edits /\ Uncounted /\ Attended
    \/ UserActs /\ ShortEnough /\ ToggleTimer /\ UNCHANGED edits /\ Uncounted /\ Attended
    \/ Room /\ Tick /\ UNCHANGED edits /\ Uncounted /\ Attended
    \/ \E m \in {"work", "break"} :
          UserActs /\ Room /\ HandleModeChange(m) /\ UNCHANGED edits /\ Uncounted /\ Attended
    \/ \E f \in SettingsFields, v \in EnteredValues :
          UserActs /\ edits < MaxEdits /\ UpdateSettings(f, v) /\ Uncounted /\ Attended

Spec == Init /\ [][Next]_vars

\* the tick counters follow the event: a tick counts, a new phase starts at 0
Counted ==
    /\ totalTicks' = totalTicks + (IF last'.op \in {"tick", "expire"} THEN 1 ELSE 0)
    /\ phaseTicks' = IF mode' # mode THEN 0
                     ELSE phaseTicks + (IF last'.op = "tick" THEN 1 ELSE 0)

\* Uninterrupted sessions from the initial state: the user starts each work
\* countdown, lets it run to the end and goes straight back to work.
SessionNext ==
    \/ /\ ~isRunning /\ mode = "work" /\ dailyStats.workSessions < MaxSessions
       /\ ToggleTimer /\ UNCHANGED edits /\ Counted /\ Attended
    \/ Tick /\ UNCHANGED edits /\ Counted /\ Attended
    \/ mode = "break" /\ HandleModeChange("work") /\ UNCHANGED edits /\ Counted /\ Attended

SessionSpec == Init /\ [][SessionNext]_vars

\* The events of Next with the ticks counted, up to MaxTicks ticks.
CountNext ==
    \/ UserActs /\ ResetTimer /\ UNCHANGED edits /\ Counted /\ Attended
    \/ UserActs /\ ShortEnough /\ ToggleTimer /\ UNCHANGED edits /\ Counted /\ Attended
    \/ Room /\ totalTicks < MaxTicks /\ Tick /\ UNCHANGED edits /\ Counted /\ Attended
    \/ \E m \in {"work", "break"} :
          UserActs /\ Room /\ HandleModeChange(m) /\ UNCHANGED edits /\ Counted /\ Attended
    \/ \E f \in SettingsFields, v \in EnteredValues :
          UserActs /\ edits < MaxEdits /\ UpdateSettings(f, v) /\ Counted /\ Attended

CountSpec == Init /\ [][CountNext]_vars

\* the interval callback runs (lines 139-153)
Ticks == Tick /\ UNCHANGED <<edits, quiet>> /\ Uncounted

\* the user leaves the running timer to itself
Leave ==
    /\ ~quiet
    /\ isRunning
    /\ quiet' = TRUE
    /\ UNCHANGED <<settings, timeLeft, isRunning, mode, laps, dailyStats, loaded, long,
                   reloaded, clean, last, edits, phaseTicks, totalTicks>>

\* the durations the user sets before use
SetUpFields == {"workDuration", "breakDuration"}

\* the user is still setting the timer up: nothing but settings edits so far
SetsUp == ~quiet /\ last.op \in {"init", "updateSettings"}

\* The user sets the durations, operates the timer for a while and then
\* leaves; the interval of line 139 keeps calling back every second while
\* isRunning && timeLeft > 0.
LiveNext ==
    \/ ~quiet /\ UserActs /\ ResetTimer /\ UNCHANGED edits /\ Uncounted /\ Attended
    \/ ~quiet /\ UserActs /\ Room /\ ShortEnough /\ ToggleTimer /\ UNCHANGED edits /\ Uncounted /\ Attended
    \/ Ticks
    \/ \E m \in {"work", "break"} :
          ~quiet /\ UserActs /\ Room /\ HandleModeChange(m) /\ UNCHANGED edits /\ Uncounted /\ Attended
    \/ \E f \in SetUpFields, v \in EnteredValues :
          SetsUp /\ edits < MaxEdits /\ UpdateSettings(f, v) /\ Uncounted /\ Attended
    \/ Leave

LiveSpec == Init /\ [][LiveNext]_vars /\ WF_vars(Ticks)

TypeOK ==
    /\ mode \in {"work", "break"}
    /\ isRunning \in BOOLEAN
    /\ long \in BOOLEAN
    /\ clean \in BOOLEAN
    /\ quiet \in BOOLEAN
    /\ \A i \in 1..Len(laps) : laps[i].mode \in {"work", "break"}

-----------------------------------------------------------------------------
(* Auxiliary notions of the properties. *)

\* the state before the last event
Pre == last.pre

\* the last event put exactly this lap in front of the history log
Prepended(lap) == laps = <<lap>> \o Pre.laps

\* the last event was a tick that ended a phase
Expired == last.op = "expire"

\* the last event was a manual change to the other phase
SwitchedManually == last.op = "setPhase" /\ last.arg # Pre.mode

\* the full duration of the current phase under the current settings
FullDuration ==
    IF mode = "work" THEN settings.workDuration
    ELSE IF long THEN settings.longBreakDuration
    ELSE settings.breakDuration

RECURSIVE CountLaps(_, _)
CountLaps(ls, m) ==
    IF ls = <<>> THEN 0
    ELSE (IF Head(ls).mode = m THEN 1 ELSE 0) + CountLaps(Tail(ls), m)

RECURSIVE SumLaps(_, _)
SumLaps(ls, m) ==
    IF ls = <<>> THEN 0
    ELSE (IF Head(ls).mode = m THEN Head(ls).duration ELSE 0) + SumLaps(Tail(ls), m)

-----------------------------------------------------------------------------
(* C1 .. C10 *)

\* C1: a countdown that reaches zero by ticks alone (no reset and no settings
\* change since the phase was entered) prepends exactly one lap, of the phase
\* that ended and of the full duration the phase was entered with, and flips
\* the phase.  Stated as the claim puts it; the code records one second less.
C1_ExpiryRecordsFullDuration ==
    (Expired /\ Pre.clean) =>
        /\ Prepended([ mode |-> Pre.mode, duration |-> Pre.loaded ])
        /\ mode = OtherMode(Pre.mode)

\* C2: the break entered after the k-th recorded work session (natural
\* expiry) is loaded with longBreakDuration when k is a multiple of
\* sessionsUntilLongBreak and with breakDuration otherwise.  Stated as the
\* claim puts it; the code decides on the count before the session is folded.
C2_LongBreakAfterEveryNthSession ==
    ( /\ Expired /\ Pre.mode = "work"
      /\ Len(laps) = Len(Pre.laps) + 1
      /\ ~IsNaN(settings.sessionsUntilLongBreak) ) =>
        timeLeft = IF dailyStats.workSessions % settings.sessionsUntilLongBreak = 0
                   THEN settings.longBreakDuration
                   ELSE settings.breakDuration

\* C3: streakDays rises by exactly one when workSessions reaches dailyGoal and
\* never again on a later work lap.  Stated as the claim puts it; the code
\* raises the streak on every work lap from the goal on.
C3_StreakRisesOncePerGoal ==
    dailyStats.streakDays =
        InitialStats.streakDays
          + (IF dailyStats.workSessions >= dailyStats.dailyGoal THEN 1 ELSE 0)

\* C4: the tick that ends a phase is one step: after it the phase is the
\* other one, timeLeft is the full duration loaded for the new phase (a
\* configured duration of that phase, and not 0) and the countdown is
\* stopped; a tick is only ever processed on a running countdown.
C4_ExpiryLoadsNextPhaseAndStops ==
    /\ Expired =>
          /\ mode = OtherMode(Pre.mode)
          /\ timeLeft = loaded
          /\ timeLeft \in (IF mode = "work" THEN {settings.workDuration}
                           ELSE {settings.breakDuration, settings.longBreakDuration})
          /\ timeLeft # 0
          /\ ~isRunning
    /\ last.op \in {"tick", "expire"} => Pre.isRunning

\* C4 happens: a running countdown at one second has expired
W_C4 == Expired /\ Pre.isRunning /\ Pre.timeLeft = 1 /\ mode = "break"

\* C5: a manual change to the other phase made with less left than the phase
\* was entered with (and no reset or settings change in between) prepends one
\* lap of the phase left, with elapsed = duration at entry - timeLeft.  Stated
\* as the claim puts it; the code measures a long break against breakDuration.
C5_ManualSwitchRecordsElapsed ==
    (SwitchedManually /\ Pre.clean /\ Gt(Pre.loaded, Pre.timeLeft)) =>
        Prepended([ mode |-> Pre.mode, duration |-> Pre.loaded - Pre.timeLeft ])

\* C6: from the same settings and daily stats, the manual change from work to
\* break and the natural expiry of work load the same break duration.  Stated
\* as the claim puts it; the manual change never loads the long break.
C6_ManualAndNaturalLoadSameBreak ==
    mode = "work" => ManualDuration("break") = SwitchDuration("break")

\* C7: the daily stats are the fold of the history log: sessions are the
\* counts and total times the sums of the laps of each phase.
C7_StatsAreFoldOfHistory ==
    /\ dailyStats.workSessions = CountLaps(laps, "work")
    /\ dailyStats.totalWorkTime = SumLaps(laps, "work")
    /\ dailyStats.breakSessions = CountLaps(laps, "break")
    /\ dailyStats.totalBreakTime = SumLaps(laps, "break")

\* C7 happens: the log holds a work lap and a break lap
W_C7 ==
    \E i, j \in 1..Len(laps) : laps[i].mode = "work" /\ laps[j].mode = "break"

\* C8: reset loads the full duration of the current phase (of the long break
\* during a long break), stops the countdown and leaves phase, history log and
\* daily stats alone.  Stated as the claim puts it; the code loads
\* breakDuration during a long break.
C8_ResetLoadsFullDuration ==
    last.op = "reset" =>
        /\ timeLeft = FullDuration
        /\ ~isRunning
        /\ mode = Pre.mode
        /\ laps = Pre.laps
        /\ dailyStats = Pre.dailyStats

\* C9: after any settings edits every duration is a number of at least 60
\* seconds and sessionsUntilLongBreak a number of at least 1.  Stated as the
\* claim puts it; an emptied field stores NaN.
C9_SettingsAtLeastMinimum ==
    /\ \A f \in {"workDuration", "breakDuration", "longBreakDuration"} :
          ~IsNaN(settings[f]) /\ settings[f] >= SecondsPerMinute
    /\ ~IsNaN(settings.sessionsUntilLongBreak)
    /\ settings.sessionsUntilLongBreak >= 1

\* C10 as claimed: timeLeft never exceeds the duration that was configured
\* for the current phase when the phase was entered.
C10_AtMostEntryDuration == ~Gt(timeLeft, loaded)

\* C10 as amended: timeLeft never exceeds the duration last loaded into it,
\* on entering the phase or by a later reset (which loads the duration
\* configured at that moment).
C10_AtMostLastLoadedDuration == ~Gt(timeLeft, reloaded)

\* C10 happens: a reset has loaded more than the phase was entered with
W_C10 == last.op = "reset" /\ Gt(timeLeft, loaded) /\ timeLeft = reloaded

-----------------------------------------------------------------------------
(* C11 .. C20 *)

\* the last event was a tick, ending the phase or not
Ticked == last.op \in {"tick", "expire"}

\* the last event left what the user sees of the timer and its records alone
SameTimer ==
    /\ mode = Pre.mode
    /\ timeLeft = Pre.timeLeft
    /\ isRunning = Pre.isRunning

SameRecords == laps = Pre.laps /\ dailyStats = Pre.dailyStats

\* C11 as claimed: every processed tick, the one at a remaining second
\* included, lowers timeLeft by exactly 1, so that N ticks of a phase entered
\* with fullDuration leave fullDuration - N for every N <= fullDuration; ticks
\* are processed only while running with time left; timeLeft is never below 0.
C11_EveryTickLowersByOne ==
    /\ Ticked =>
          /\ Pre.isRunning /\ Pre.timeLeft # 0
          /\ timeLeft = Pre.timeLeft - 1
          /\ Pre.clean => timeLeft = Pre.loaded - (Pre.phaseTicks + 1)
    /\ IsNaN(timeLeft) \/ timeLeft >= 0

\* C11 as amended: N < fullDuration ticks of a phase entered with
\* fullDuration leave fullDuration - N, each lowering timeLeft by exactly 1;
\* the tick at one remaining second ends the phase and loads the duration of
\* the next phase instead of leaving 0; ticks are processed only while
\* running with time left; timeLeft is never below 0.
C11_TicksCountDownToExpiry ==
    /\ last.op = "tick" =>
          /\ Pre.isRunning /\ Gt(Pre.timeLeft, 1)
          /\ timeLeft = Pre.timeLeft - 1
          /\ phaseTicks = Pre.phaseTicks + 1
    /\ (clean /\ ~IsNaN(loaded)) => (phaseTicks < loaded /\ timeLeft = loaded - phaseTicks)
    /\ Expired =>
          /\ Pre.isRunning /\ Pre.timeLeft = 1
          /\ Pre.clean => Pre.phaseTicks + 1 = Pre.loaded
          /\ phaseTicks = 0 /\ timeLeft = loaded
    /\ IsNaN(timeLeft) \/ timeLeft >= 0

\* C11 happens: a phase has been counted down to its last second
W_C11 == last.op = "tick" /\ timeLeft = 1 /\ phaseTicks = loaded - 1 /\ isRunning

\* C12: a manual change to the phase that is current already changes
\* nothing: no lap, same stats, phase, timeLeft and isRunning.
C12_SamePhaseChangesNothing ==
    (last.op = "setPhase" /\ last.arg = Pre.mode) =>
        /\ SameTimer /\ SameRecords
        /\ settings = Pre.settings

\* C12 happens: the current phase was picked while the countdown was running
W_C12 ==
    /\ last.op = "setPhase" /\ last.arg = Pre.mode
    /\ Pre.isRunning /\ Gt(Pre.loaded, Pre.timeLeft)

\* C13: a phase change made before any tick of the phase was processed
\* records no lap and leaves the stats alone, and every lap in the history
\* log has elapsed > 0.  Stated as the claim puts it; the code records a lap
\* whenever the configured duration exceeds timeLeft.
C13_NoLapWithoutElapsedTime ==
    /\ (mode # Pre.mode /\ Pre.phaseTicks = 0 /\ last.op = "setPhase") => SameRecords
    /\ \A i \in 1..Len(laps) : laps[i].duration > 0

\* C14: the history log grows at the front only: an event leaves the log as
\* it was or puts exactly one new lap at index 1 with the earlier laps
\* unchanged behind it, and a lap is added only by an event that changes the
\* phase (so at most one lap per phase transition).
C14_HistoryGrowsAtFrontOnly ==
    /\ \/ laps = Pre.laps
       \/ Len(laps) = Len(Pre.laps) + 1 /\ Tail(laps) = Pre.laps
    /\ laps # Pre.laps => mode # Pre.mode

\* C14 happens: a lap was put in front of an earlier, different lap
W_C14 == Len(laps) = 2 /\ Tail(laps) = Pre.laps /\ laps[1] # laps[2]

\* C15: a reset that follows a reset changes nothing: phase, timeLeft,
\* isRunning, history log, stats and settings are those the first reset left.
C15_ResetIsIdempotent ==
    last.again => (SameTimer /\ SameRecords /\ settings = Pre.settings)

\* C15 happens: reset was pressed twice in a row, the first time on a running
\* countdown that had moved
W_C15 == last.again /\ ~Pre.clean /\ timeLeft # loaded

\* C16: the start sound is played by an event exactly when that event takes
\* isRunning from false to true, and only toggle plays it; a toggle that
\* plays it leaves the timer running.
C16_StartSoundOncePerStart ==
    /\ last.sound = "start" <=> (isRunning /\ ~Pre.isRunning)
    /\ last.sound = "start" => last.op = "toggle"

\* C16 happens: a pause played nothing and a start played the sound
W_C16 == last.op = "toggle" /\ last.sound = "start" /\ isRunning /\ Gt(loaded, timeLeft)

\* C17: no event lowers a counter, a total or the streak; toggle, reset, a
\* settings edit and a tick that does not end the phase leave stats and log
\* alone; the stats change only with a recorded lap, which raises the session
\* counter of its phase by 1, the time total of its phase by its elapsed
\* seconds, nothing of the other phase, and the streak by at most 1.
C17_StatsGrowOnlyByLaps ==
    /\ \A f \in {"workSessions", "breakSessions", "totalWorkTime", "totalBreakTime",
                  "streakDays"} : dailyStats[f] >= Pre.dailyStats[f]
    /\ last.op \in {"toggle", "reset", "updateSettings", "tick"} => SameRecords
    /\ laps = Pre.laps => dailyStats = Pre.dailyStats
    /\ laps # Pre.laps =>
          LET lap  == laps[1]
              work == IF lap.mode = "work" THEN 1 ELSE 0
              old  == Pre.dailyStats
          IN  /\ dailyStats.workSessions = old.workSessions + work
              /\ dailyStats.breakSessions = old.breakSessions + (1 - work)
              /\ dailyStats.totalWorkTime = old.totalWorkTime + work * lap.duration
              /\ dailyStats.totalBreakTime = old.totalBreakTime + (1 - work) * lap.duration
              /\ dailyStats.streakDays \in {old.streakDays, old.streakDays + 1}
              /\ dailyStats.dailyGoal = old.dailyGoal

\* C17 happens: a break lap was recorded after a work lap
W_C17 == Len(laps) = 2 /\ laps # Pre.laps /\ laps[1].mode = "break" /\ laps[2].mode = "work"

\* C18: recorded time never exceeds counted time: the two time totals
\* together are at most the number of ticks processed since the start, and
\* the lap an event records is at most the number of ticks processed while
\* its phase was current (the tick that ends the phase included).
C18_RecordedTimeAtMostCounted ==
    /\ dailyStats.totalWorkTime + dailyStats.totalBreakTime <= totalTicks
    /\ laps # Pre.laps =>
          laps[1].duration <= Pre.phaseTicks + (IF Expired THEN 1 ELSE 0)

\* C19: while the phase is break, the session info text announces a long
\* break exactly when the break was entered with longBreakDuration loaded.
C19_LabelAgreesWithLoadedBreak ==
    mode = "break" => (SessionInfoLongBreak <=> long)

\* C20: a running countdown with time left, once the user has left and while
\* ticks keep being delivered, leads to the other phase with the timer at
\* rest; and a tick never stops the timer without switching the phase.
C20_CountdownEndsInOtherPhase ==
    /\ \A m \in {"work", "break"} :
          (quiet /\ isRunning /\ mode = m /\ Gt(timeLeft, 0)) ~> (mode # m /\ ~isRunning)
    /\ []((last.op \in {"tick", "expire"} /\ ~isRunning) => (Expired /\ mode # Pre.mode))

\* C20 happens: left alone with a running countdown, the timer came to rest
\* in the other phase
W_C20 == quiet /\ Expired /\ ~isRunning /\ mode # Pre.mode /\ Gt(Pre.loaded, 1)

====
